---- MODULE Spec2Model ----
(***************************************************************************)
(* Typed socket-option accessors of nix (src/sys/socket/sockopt.rs).       *)
(*                                                                         *)
(* The module models the option registry (the sockopt_impl! invocations),  *)
(* the Get/Set encoding strategies (GetBool, SetBool, GetU8, SetU8,        *)
(* GetUsize, SetUsize, GetStruct<T>, SetStruct<T>) and the two generated   *)
(* entry points get and set.  The kernel is the environment: it answers    *)
(* the one syscall of a call with a status, and for getsockopt with the    *)
(* contents it left in the scratch value and in the length slot.           *)
(*                                                                         *)
(* Values are modelled at the value level: a c_int is an integer in        *)
(* -2^31 .. 2^31-1, a u8 an integer in 0 .. 255, a usize (64 bit) a        *)
(* little-endian sequence of four 16-bit limbs, a struct the sequence of   *)
(* its fields.  A pointer handed to a syscall is modelled by the size of   *)
(* the object it points to.                                                *)
(***************************************************************************)
EXTENDS Integers, Sequences, FiniteSets, TLC

VARIABLES target, call, applied, listening, resolved

vars == <<target, call, applied, listening, resolved>>

----------------------------------------------------------------------------
(* Bounds *)

\* number of socket descriptors the caller holds
NumFds == 2

Fds == 3 .. (2 + NumFds)

----------------------------------------------------------------------------
(* Platform *)

OsNames == {"linux", "android", "freebsd", "dragonfly", "macos", "ios",
            "netbsd", "openbsd", "nacl", "solaris"}

ArchNames == {"x86_64", "arm"}

Targets == [os : OsNames, arch : ArchNames]

\* the build targets the call specifications are run for; between them they
\* enable every entry of the registry
CallTargets == {[os |-> "linux", arch |-> "x86_64"], [os |-> "macos", arch |-> "x86_64"]}

BsdFamily == {"dragonfly", "freebsd", "ios", "macos", "netbsd", "openbsd"}

\* CfgHolds with netbsd left out of the second list of target_os values
CfgHolds_without_netbsd(cfg, t) ==
    CASE cfg = "always"        -> TRUE
      [] cfg = "not_bsd"       -> ~(t.os \in BsdFamily)
      [] cfg = "bsd"           -> t.os \in (BsdFamily \ {"netbsd"})
      [] cfg = "linux_not_arm" -> t.os = "linux" /\ ~(t.arch = "arm")
      [] cfg = "apple"         -> t.os \in {"macos", "ios"}
      [] cfg = "keepidle"      -> t.os \in {"freebsd", "dragonfly", "linux", "android", "nacl"}
      [] cfg = "linux_android" -> t.os \in {"linux", "android"}

\* the #[cfg(...)] predicates of the registry, by the line they stand on
CfgHolds(cfg, t) ==
    CASE cfg = "always"        -> TRUE
      [] cfg = "not_bsd"       -> ~(t.os \in BsdFamily)
      [] cfg = "bsd"           -> t.os \in BsdFamily
      [] cfg = "linux_not_arm" -> t.os = "linux" /\ ~(t.arch = "arm")
      [] cfg = "apple"         -> t.os \in {"macos", "ios"}
      [] cfg = "keepidle"      -> t.os \in {"freebsd", "dragonfly", "linux", "android", "nacl"}
      [] cfg = "linux_android" -> t.os \in {"linux", "android"}

----------------------------------------------------------------------------
(* Option registry: one record per sockopt_impl! invocation *)

Opt(line, cfg, cap, name, level, flag, ty) ==
    [line |-> line, cfg |-> cfg, cap |-> cap, name |-> name,
     level |-> level, flag |-> flag, ty |-> ty]

Registry ==
    { Opt(132, "always", "Both", "ReuseAddr", "SOL_SOCKET", "SO_REUSEADDR", "bool"),
      Opt(133, "always", "Both", "ReusePort", "SOL_SOCKET", "SO_REUSEPORT", "bool"),
      Opt(134, "always", "Both", "TcpNoDelay", "IPPROTO_TCP", "TCP_NODELAY", "bool"),
      Opt(135, "always", "Both", "Linger", "SOL_SOCKET", "SO_LINGER", "linger"),
      Opt(136, "always", "SetOnly", "IpAddMembership", "IPPROTO_IP", "IP_ADD_MEMBERSHIP", "ip_mreq"),
      Opt(137, "always", "SetOnly", "IpDropMembership", "IPPROTO_IP", "IP_DROP_MEMBERSHIP", "ip_mreq"),
      Opt(139, "not_bsd", "SetOnly", "Ipv6AddMembership", "IPPROTO_IPV6", "IPV6_ADD_MEMBERSHIP", "ipv6_mreq"),
      Opt(141, "not_bsd", "SetOnly", "Ipv6DropMembership", "IPPROTO_IPV6", "IPV6_DROP_MEMBERSHIP", "ipv6_mreq"),
      Opt(143, "bsd", "SetOnly", "Ipv6AddMembership", "IPPROTO_IPV6", "IPV6_JOIN_GROUP", "ipv6_mreq"),
      Opt(145, "bsd", "SetOnly", "Ipv6DropMembership", "IPPROTO_IPV6", "IPV6_LEAVE_GROUP", "ipv6_mreq"),
      Opt(146, "always", "Both", "IpMulticastTtl", "IPPROTO_IP", "IP_MULTICAST_TTL", "u8"),
      Opt(147, "always", "Both", "IpMulticastLoop", "IPPROTO_IP", "IP_MULTICAST_LOOP", "bool"),
      Opt(148, "always", "Both", "ReceiveTimeout", "SOL_SOCKET", "SO_RCVTIMEO", "TimeVal"),
      Opt(149, "always", "Both", "SendTimeout", "SOL_SOCKET", "SO_SNDTIMEO", "TimeVal"),
      Opt(150, "always", "Both", "Broadcast", "SOL_SOCKET", "SO_BROADCAST", "bool"),
      Opt(151, "always", "Both", "OobInline", "SOL_SOCKET", "SO_OOBINLINE", "bool"),
      Opt(152, "always", "GetOnly", "SocketError", "SOL_SOCKET", "SO_ERROR", "i32"),
      Opt(153, "always", "Both", "KeepAlive", "SOL_SOCKET", "SO_KEEPALIVE", "bool"),
      Opt(155, "linux_not_arm", "GetOnly", "PeerCredentials", "SOL_SOCKET", "SO_PEERCRED", "ucred"),
      Opt(158, "apple", "Both", "TcpKeepAlive", "IPPROTO_TCP", "TCP_KEEPALIVE", "u32"),
      Opt(164, "keepidle", "Both", "TcpKeepIdle", "IPPROTO_TCP", "TCP_KEEPIDLE", "u32"),
      Opt(165, "always", "Both", "RcvBuf", "SOL_SOCKET", "SO_RCVBUF", "usize"),
      Opt(166, "always", "Both", "SndBuf", "SOL_SOCKET", "SO_SNDBUF", "usize"),
      Opt(168, "linux_android", "SetOnly", "RcvBufForce", "SOL_SOCKET", "SO_RCVBUFFORCE", "usize"),
      Opt(170, "linux_android", "SetOnly", "SndBufForce", "SOL_SOCKET", "SO_SNDBUFFORCE", "usize"),
      Opt(171, "always", "GetOnly", "SockType", "SOL_SOCKET", "SO_TYPE", "SockType"),
      Opt(172, "always", "GetOnly", "AcceptConn", "SOL_SOCKET", "SO_ACCEPTCONN", "bool"),
      Opt(174, "linux_android", "GetOnly", "OriginalDst", "SOL_IP", "SO_ORIGINAL_DST", "sockaddr_in"),
      Opt(175, "always", "Both", "ReceiveTimestamp", "SOL_SOCKET", "SO_TIMESTAMP", "bool") }

OptNames == { e.name : e \in Registry }

\* the items the compiler keeps for a target
Defined(t) == { e \in Registry : CfgHolds(e.cfg, t) }

\* the definitions an identifier resolves to on a target
Resolve(name, t) == { e \in Defined(t) : e.name = name }

\* the capability arms of sockopt_impl!: which trait impls an entry gets
Resolution(name, t) == [name |-> name, defs |-> Resolve(name, t)]

NoResolution == [name |-> "", defs |-> {}]

HasGet(e) == e.cap \in {"Both", "GetOnly"}

HasSet(e) == e.cap \in {"Both", "SetOnly"}

\* the type arms of sockopt_impl!: bool, u8 and usize have their own
\* strategies, every other type falls through to the generic struct ones
Getter(ty) ==
    CASE ty = "bool"  -> "GetBool"
      [] ty = "u8"    -> "GetU8"
      [] ty = "usize" -> "GetUsize"
      [] OTHER        -> "GetStruct"

Setter(ty) ==
    CASE ty = "bool"  -> "SetBool"
      [] ty = "u8"    -> "SetU8"
      [] ty = "usize" -> "SetUsize"
      [] OTHER        -> "SetStruct"

----------------------------------------------------------------------------
(* Machine types *)

\* mem::size_of::<c_int>()
SizeOfCInt == 4

\* mem::size_of::<uint8_t>()
SizeOfU8 == 1

LimbBase == 2^16

HalfLimb == 2^15

CIntMax == (HalfLimb - 1) * LimbBase + (LimbBase - 1)

CIntMin == (0 - CIntMax) - 1

\* mem::size_of::<T>() for the struct-encoded value types (LP64 layouts)
SizeOf(ty) ==
    CASE ty = "linger"      -> 8
      [] ty = "TimeVal"     -> 16
      [] ty = "ip_mreq"     -> 8
      [] ty = "ipv6_mreq"   -> 20
      [] ty = "ucred"       -> 12
      [] ty = "sockaddr_in" -> 16
      [] ty = "i32"         -> 4
      [] ty = "u32"         -> 4
      [] ty = "SockType"    -> 4

\* number of fields a struct value is written with
NumFields(ty) == IF ty \in {"i32", "u32", "SockType"} THEN 1 ELSE 2

\* mem::zeroed()
Zeroed(ty) == [i \in 1 .. NumFields(ty) |-> 0]

\* UsizeAsCInt narrowing to 16 bits instead of 32
UsizeAsCShort(u) ==
    IF u[1] < HalfLimb THEN u[1] ELSE u[1] - LimbBase

\* `*val as c_int` for a usize: keep the low 32 bits, read them as signed
UsizeAsCInt(u) ==
    IF u[2] < HalfLimb THEN u[2] * LimbBase + u[1]
                       ELSE (u[2] - LimbBase) * LimbBase + u[1]

\* `self.val as usize` for a c_int: sign-extend to 64 bits
CIntAsUsize(v) ==
    LET lo == v % LimbBase
        hi == (v \div LimbBase) % LimbBase
        ext == IF v < 0 THEN LimbBase - 1 ELSE 0
    IN  <<lo, hi, ext, ext>>

\* `self.val as u8` for a uint8_t
U8AsU8(v) == v % 256

----------------------------------------------------------------------------
(* Sample values the caller passes and the kernel leaves behind *)

U8Samples == {0, 1, 255}

CIntSamples == {0, 1, -1, CIntMax, CIntMin}

UsizeSamples ==
    { <<0, 0, 0, 0>>, <<1, 0, 0, 0>>,
      <<LimbBase - 1, HalfLimb - 1, 0, 0>>,
      <<0, HalfLimb, 0, 0>>,
      <<0, 0, 1, 0>>,
      <<LimbBase - 1, LimbBase - 1, LimbBase - 1, LimbBase - 1>> }

StructSamples(ty) ==
    IF NumFields(ty) = 1 THEN {<<0>>, <<1>>} ELSE {<<0, 0>>, <<1, 5>>}

\* the typed values a caller can pass to set
ValuesOf(ty) ==
    CASE ty = "bool"  -> BOOLEAN
      [] ty = "u8"    -> U8Samples
      [] ty = "usize" -> UsizeSamples
      [] OTHER        -> StructSamples(ty)

\* the contents the scratch value of a read strategy can hold
ScratchValues(ty) ==
    CASE ty = "bool"  -> {0, 1, -1}
      [] ty = "u8"    -> U8Samples
      [] ty = "usize" -> CIntSamples
      [] OTHER        -> StructSamples(ty)

Errnos == {"EBADF", "ENOPROTOOPT"}

----------------------------------------------------------------------------
(* Accessor helpers: read strategies.  A getter is [len, val]; ffi_ptr is  *)
(* modelled by the size of the val field it points to; unwrap yields       *)
(* [panic, val] with val the typed result in a one-element sequence.       *)

Returned(v) == [panic |-> FALSE, val |-> <<v>>]

AssertFailed == [panic |-> TRUE, val |-> << >>]

GetStruct_blank(ty) == [len |-> SizeOf(ty), val |-> Zeroed(ty)]

GetStruct_ffi_ptr(ty) == SizeOf(ty)

\* GetStruct_unwrap without its assertion
GetStruct_unwrap_unasserted(g, ty) == Returned(g.val)

GetStruct_unwrap(g, ty) ==
    IF g.len = SizeOf(ty) THEN Returned(g.val) ELSE AssertFailed

GetBool_blank == [len |-> SizeOfCInt, val |-> 0]

GetBool_ffi_ptr == SizeOfCInt

\* GetBool_unwrap decoding `self.val > 0`
GetBool_unwrap_positive(g) ==
    IF g.len = SizeOfCInt THEN Returned(g.val > 0) ELSE AssertFailed

GetBool_unwrap(g) ==
    IF g.len = SizeOfCInt THEN Returned(g.val # 0) ELSE AssertFailed

GetU8_blank == [len |-> SizeOfU8, val |-> 0]

GetU8_ffi_ptr == SizeOfU8

GetU8_unwrap(g) ==
    IF g.len = SizeOfU8 THEN Returned(U8AsU8(g.val)) ELSE AssertFailed

GetUsize_blank == [len |-> SizeOfCInt, val |-> 0]

GetUsize_ffi_ptr == SizeOfCInt

GetUsize_unwrap(g) ==
    IF g.len = SizeOfCInt THEN Returned(CIntAsUsize(g.val)) ELSE AssertFailed

\* Get::blank() of the strategy sockopt_impl! chose for the type
Get_blank(ty) ==
    CASE Getter(ty) = "GetBool"   -> GetBool_blank
      [] Getter(ty) = "GetU8"     -> GetU8_blank
      [] Getter(ty) = "GetUsize"  -> GetUsize_blank
      [] Getter(ty) = "GetStruct" -> GetStruct_blank(ty)

Get_ffi_ptr(ty) ==
    CASE Getter(ty) = "GetBool"   -> GetBool_ffi_ptr
      [] Getter(ty) = "GetU8"     -> GetU8_ffi_ptr
      [] Getter(ty) = "GetUsize"  -> GetUsize_ffi_ptr
      [] Getter(ty) = "GetStruct" -> GetStruct_ffi_ptr(ty)

\* ffi_len(): the address of the len field, i.e. the length the kernel reads
Get_ffi_len(g) == g.len

Get_unwrap(g, ty) ==
    CASE Getter(ty) = "GetBool"   -> GetBool_unwrap(g)
      [] Getter(ty) = "GetU8"     -> GetU8_unwrap(g)
      [] Getter(ty) = "GetUsize"  -> GetUsize_unwrap(g)
      [] Getter(ty) = "GetStruct" -> GetStruct_unwrap(g, ty)

----------------------------------------------------------------------------
(* Accessor helpers: write strategies.  A setter is [val]; ffi_ptr is      *)
(* modelled by the size of the object it points to.                        *)

SetStruct_new(v) == [val |-> v]

SetStruct_ffi_ptr(ty) == SizeOf(ty)

\* SetStruct_ffi_len computed from c_int as in the integer strategies
SetStruct_ffi_len_of_int(ty) == SizeOfCInt

SetStruct_ffi_len(ty) == SizeOf(ty)

SetBool_new(b) == [val |-> IF b THEN 1 ELSE 0]

SetBool_ffi_ptr == SizeOfCInt

\* SetBool_ffi_len computed from the one-byte bool the caller passed
SetBool_ffi_len_of_bool == SizeOfU8

SetBool_ffi_len == SizeOfCInt

SetU8_new(v) == [val |-> v]

SetU8_ffi_ptr == SizeOfU8

\* SetU8_ffi_len computed from uint8_t, the type of the val field
SetU8_ffi_len_of_u8 == SizeOfU8

SetU8_ffi_len == SizeOfCInt

SetUsize_new(u) == [val |-> UsizeAsCInt(u)]

SetUsize_ffi_ptr == SizeOfCInt

SetUsize_ffi_len == SizeOfCInt

Set_new(ty, v) ==
    CASE Setter(ty) = "SetBool"   -> SetBool_new(v)
      [] Setter(ty) = "SetU8"     -> SetU8_new(v)
      [] Setter(ty) = "SetUsize"  -> SetUsize_new(v)
      [] Setter(ty) = "SetStruct" -> SetStruct_new(v)

Set_ffi_ptr(ty) ==
    CASE Setter(ty) = "SetBool"   -> SetBool_ffi_ptr
      [] Setter(ty) = "SetU8"     -> SetU8_ffi_ptr
      [] Setter(ty) = "SetUsize"  -> SetUsize_ffi_ptr
      [] Setter(ty) = "SetStruct" -> SetStruct_ffi_ptr(ty)

Set_ffi_len(ty) ==
    CASE Setter(ty) = "SetBool"   -> SetBool_ffi_len
      [] Setter(ty) = "SetU8"     -> SetU8_ffi_len
      [] Setter(ty) = "SetUsize"  -> SetUsize_ffi_len
      [] Setter(ty) = "SetStruct" -> SetStruct_ffi_len(ty)

----------------------------------------------------------------------------
(* The generated entry points *)

\* Errno::result(res): a non-zero status is the error read from errno
Errno_result(status, errno) ==
    IF status # 0 THEN [err |-> TRUE, errno |-> errno]
                  ELSE [err |-> FALSE, errno |-> ""]

Ok(v) == [kind |-> "Ok", errno |-> "", val |-> v]

Err(errno) == [kind |-> "Err", errno |-> errno, val |-> << >>]

Panic == [kind |-> "Panic", errno |-> "", val |-> << >>]

\* one libc call as the kernel sees it: buf is the size of the object the
\* pointer argument points to, len the length argument (for getsockopt the
\* content of the length slot on entry), data the object's content and oob
\* the bytes the kernel reads beyond the object when len exceeds buf
Syscall(fn, fd, e, buf, len, data, oob) ==
    [fn |-> fn, fd |-> fd, level |-> e.level, flag |-> e.flag,
     buf |-> buf, len |-> len, data |-> data, oob |-> oob]

\* get without the try!: the getter is unwrapped whatever the status
get_unchecked(e, fd, r) ==
    LET getter == Get_blank(e.ty)
        sc     == Syscall("getsockopt", fd, e, Get_ffi_ptr(e.ty),
                          Get_ffi_len(getter), << >>, << >>)
        filled == [len |-> r.len, val |-> r.val]
        u      == Get_unwrap(filled, e.ty)
    IN  [op |-> "get", fd |-> fd, opt |-> e, arg |-> << >>,
         syscalls |-> <<sc>>, status |-> r.status, errno |-> r.errno,
         getter |-> <<filled>>, unwrapped |-> TRUE,
         outcome |-> IF u.panic THEN Panic ELSE Ok(u.val)]

\* GetSockOpt::get for registry entry e; r is what the kernel did: its
\* status, the errno it set, and the length slot and scratch value it left
get(e, fd, r) ==
    LET getter == Get_blank(e.ty)
        sc     == Syscall("getsockopt", fd, e, Get_ffi_ptr(e.ty),
                          Get_ffi_len(getter), << >>, << >>)
        filled == [len |-> r.len, val |-> r.val]
        res    == Errno_result(r.status, r.errno)
        base   == [op |-> "get", fd |-> fd, opt |-> e, arg |-> << >>,
                   syscalls |-> <<sc>>, status |-> r.status, errno |-> r.errno,
                   getter |-> <<filled>>]
    IN  IF res.err
        THEN base @@ [unwrapped |-> FALSE, outcome |-> Err(res.errno)]
        ELSE LET u == Get_unwrap(filled, e.ty)
             IN  base @@ [unwrapped |-> TRUE,
                          outcome |-> IF u.panic THEN Panic ELSE Ok(u.val)]

\* set calling setsockopt a second time when the first call failed
set_retrying(e, fd, v, oob, r) ==
    LET setter == Set_new(e.ty, v)
        sc     == Syscall("setsockopt", fd, e, Set_ffi_ptr(e.ty),
                          Set_ffi_len(e.ty), <<setter.val>>, oob)
        res    == Errno_result(r.status, r.errno)
    IN  [op |-> "set", fd |-> fd, opt |-> e, arg |-> <<v>>,
         syscalls |-> IF res.err THEN <<sc, sc>> ELSE <<sc>>,
         status |-> r.status, errno |-> r.errno,
         getter |-> << >>, unwrapped |-> FALSE,
         outcome |-> IF res.err THEN Err(res.errno) ELSE Ok(<< >>)]

\* SetSockOpt::set for registry entry e and value v; oob is what lies behind
\* the setter's value when the kernel is told to read past it, r the kernel's
\* status and errno
set(e, fd, v, oob, r) ==
    LET setter == Set_new(e.ty, v)
        sc     == Syscall("setsockopt", fd, e, Set_ffi_ptr(e.ty),
                          Set_ffi_len(e.ty), <<setter.val>>, oob)
        res    == Errno_result(r.status, r.errno)
    IN  [op |-> "set", fd |-> fd, opt |-> e, arg |-> <<v>>,
         syscalls |-> <<sc>>, status |-> r.status, errno |-> r.errno,
         getter |-> << >>, unwrapped |-> FALSE,
         outcome |-> IF res.err THEN Err(res.errno) ELSE Ok(<< >>)]

NoOpt == Opt(0, "", "", "", "", "", "")

NoCall ==
    [op |-> "none", fd |-> 0, opt |-> NoOpt, arg |-> << >>, syscalls |-> << >>,
     status |-> 0, errno |-> "", getter |-> << >>, unwrapped |-> FALSE,
     outcome |-> Ok(<< >>)]

----------------------------------------------------------------------------
(* The kernel *)

\* what an out-of-bounds read of the kernel can find
GarbageSamples == {0, 1}

\* the bytes a setsockopt reads beyond the object it is pointed at
OobReads(buf, len) ==
    IF len > buf THEN { <<g>> : g \in GarbageSamples } ELSE { << >> }

\* lengths a kernel can leave in the length slot that was preset to p
LenSamples(p) == {p, 0, SizeOfCInt, p + SizeOfCInt}

\* a non-zero content of the scratch value
Overwritten(ty) ==
    CASE Getter(ty) = "GetStruct" -> [i \in 1 .. NumFields(ty) |-> 1]
      [] OTHER                    -> 1

\* any kernel: on success any length and any content; on failure an errno,
\* with the length slot and the scratch left alone or overwritten
GetReplies(e) ==
    LET g == Get_blank(e.ty)
    IN  [status : {0}, errno : {""}, len : LenSamples(g.len),
         val : ScratchValues(e.ty)]
        \cup
        [status : {-1}, errno : Errnos, len : {g.len}, val : {g.val}]
        \cup
        [status : {-1}, errno : Errnos, len : {0}, val : {Overwritten(e.ty)}]

SetReplies ==
    [status : {0}, errno : {""}] \cup [status : {-1}, errno : Errnos]

----------------------------------------------------------------------------
(* Calls against any kernel *)

Init ==
    /\ target \in CallTargets
    /\ call = NoCall
    /\ applied = << >>
    /\ listening = {}
    /\ resolved = NoResolution

Get(fd, e) ==
    /\ e \in Defined(target)
    /\ HasGet(e)
    /\ \E r \in GetReplies(e) : call' = get(e, fd, r)
    /\ UNCHANGED <<target, applied, listening, resolved>>

Set(fd, e) ==
    /\ e \in Defined(target)
    /\ HasSet(e)
    /\ \E v \in ValuesOf(e.ty) :
         \E oob \in OobReads(Set_ffi_ptr(e.ty), Set_ffi_len(e.ty)) :
           \E r \in SetReplies : call' = set(e, fd, v, oob, r)
    /\ UNCHANGED <<target, applied, listening, resolved>>

\* the external listen operation on a descriptor
Listen(fd) ==
    /\ listening' = listening \cup {fd}
    /\ UNCHANGED <<target, call, applied, resolved>>

Next ==
    \/ \E fd \in Fds, e \in Registry : Get(fd, e)
    \/ \E fd \in Fds, e \in Registry : Set(fd, e)
    \/ \E fd \in Fds : Listen(fd)

Spec == Init /\ [][Next]_vars

----------------------------------------------------------------------------
(* Calls against a kernel that stores what it is given *)

Min(a, b) == IF a < b THEN a ELSE b

\* what a successful setsockopt leaves in the socket: the bytes it read
\* (arg, the typed value the caller passed, is kept as history only)
Stored(sc, arg) ==
    <<[fd |-> sc.fd, level |-> sc.level, flag |-> sc.flag, len |-> sc.len,
       data |-> sc.data, oob |-> sc.oob, arg |-> arg]>>

Holds(fd, e) ==
    /\ applied # << >>
    /\ applied[1].fd = fd
    /\ applied[1].level = e.level
    /\ applied[1].flag = e.flag

\* the storing kernel's answer to getsockopt: the bytes it holds for the
\* option, cut to the capacity announced in the length slot, or an untouched
\* option's zero value.  This kernel accepts every call.
StoredReply(fd, e) ==
    LET g == Get_blank(e.ty)
    IN  IF Holds(fd, e)
        THEN [status |-> 0, errno |-> "", len |-> Min(g.len, applied[1].len),
              val |-> applied[1].data[1]]
        ELSE [status |-> 0, errno |-> "", len |-> g.len, val |-> g.val]

Accepted == [status |-> 0, errno |-> ""]

StoredGet(fd, e) ==
    /\ e \in Defined(target)
    /\ HasGet(e)
    /\ call' = get(e, fd, StoredReply(fd, e))
    /\ UNCHANGED <<target, applied, listening, resolved>>

StoredSet(fd, e) ==
    /\ e \in Defined(target)
    /\ HasSet(e)
    /\ \E v \in ValuesOf(e.ty) :
         \E oob \in OobReads(Set_ffi_ptr(e.ty), Set_ffi_len(e.ty)) :
           /\ call' = set(e, fd, v, oob, Accepted)
           /\ applied' = Stored(call'.syscalls[1], v)
    /\ UNCHANGED <<target, listening, resolved>>

NextStore ==
    \/ \E fd \in Fds, e \in Registry : StoredGet(fd, e)
    \/ \E fd \in Fds, e \in Registry : StoredSet(fd, e)

SpecStore == Init /\ [][NextStore]_vars

----------------------------------------------------------------------------
(* Name resolution per build target *)

InitRegistry ==
    /\ target \in Targets
    /\ call = NoCall
    /\ applied = << >>
    /\ listening = {}
    /\ resolved = NoResolution

\* the compiler resolves a use of an option identifier on the build target
ResolveName(name) ==
    /\ resolved' = Resolution(name, target)
    /\ UNCHANGED <<target, call, applied, listening>>

NextRegistry == \E name \in OptNames : ResolveName(name)

SpecRegistry == InitRegistry /\ [][NextRegistry]_vars

----------------------------------------------------------------------------
(* Properties *)

Made == call.op # "none"

IsGet == call.op = "get"

IsSet == call.op = "set"

\* the one syscall of the last call
Sys == call.syscalls[1]

\* the getter as the kernel left it
Left == call.getter[1]

\* the length slot as blank() preset it, i.e. as it was on entry to the kernel
Preset == Sys.len

\* a 64-bit unsigned u and a 32-bit signed v denote the same number
NumEq(u, v) ==
    /\ v >= 0
    /\ u[3] = 0
    /\ u[4] = 0
    /\ u[2] < HalfLimb
    /\ u[2] * LimbBase + u[1] = v

\* C1: when the syscall returns a non-zero status, the call returns the mapped
\* OS error and nothing else: the getter is not unwrapped (no decode, no
\* length assertion, even if the kernel changed the length slot); a value
\* (get) or unit (set) is returned only when the status is zero.
C1_ErrorAndNothingElse ==
    Made =>
      /\ call.status # 0 => (call.outcome = Err(call.errno) /\ ~call.unwrapped)
      /\ call.outcome.kind = "Ok" => call.status = 0

C1_Witness ==
    /\ IsGet
    /\ call.status # 0
    /\ Left.len # Preset
    /\ call.outcome.kind = "Err"
    /\ call.outcome.errno = "ENOPROTOOPT"

\* C2: for each read strategy, a get whose syscall returns zero but leaves the
\* length slot different from the preset size ends in the fatal assertion,
\* with neither a value nor an error; get returns Ok only when the post-call
\* length equals the preset size.
C2_LengthMismatchAborts ==
    IsGet =>
      /\ (call.status = 0 /\ Left.len # Preset) => call.outcome = Panic
      /\ call.outcome.kind = "Ok" => Left.len = Preset

C2_Witness ==
    /\ IsGet
    /\ Getter(call.opt.ty) = "GetStruct"
    /\ call.status = 0
    /\ Left.len # Preset
    /\ call.outcome = Panic

\* C3: every get and every set performs exactly one syscall on every path
\* (success, OS rejection, length-mismatch abort): never none, never a retry.
C3_ExactlyOneSyscall ==
    Made =>
      /\ Len(call.syscalls) = 1
      /\ Sys.fn = (IF IsGet THEN "getsockopt" ELSE "setsockopt")
      /\ Sys.fd = call.fd

C3_Witness ==
    /\ IsSet
    /\ call.status # 0
    /\ call.outcome.kind = "Err"
    /\ Len(call.syscalls) = 1

\* C4: for every strategy, read and write, the byte length handed to the
\* syscall equals the in-memory size of the buffer whose address is handed to
\* the same syscall.
C4_LengthEqualsBufferSize ==
    Made => \A i \in 1 .. Len(call.syscalls) :
              call.syscalls[i].len = call.syscalls[i].buf

\* C5: for every read-write boolean option, against a kernel that stores the
\* native-int payload it is given: set passes 1 for true and 0 for false with
\* native-int length, get decodes non-zero as true and zero as false, and a
\* get after a successful set(b) on the same descriptor returns b.
C5_BoolRoundTrip ==
    /\ (IsSet /\ call.opt.ty = "bool") =>
         /\ Sys.data = <<IF call.arg[1] THEN 1 ELSE 0>>
         /\ Sys.len = SizeOfCInt
    /\ (IsGet /\ call.opt.ty = "bool" /\ call.outcome.kind = "Ok") =>
         call.outcome.val[1] = (Left.val # 0)
    /\ (IsGet /\ call.opt.ty = "bool" /\ call.opt.cap = "Both"
          /\ call.status = 0 /\ Holds(call.fd, call.opt)) =>
         call.outcome = Ok(<<applied[1].arg>>)

C5_Witness ==
    /\ IsGet
    /\ call.opt.name = "TcpNoDelay"
    /\ Holds(call.fd, call.opt)
    /\ applied[1].arg = TRUE
    /\ call.outcome = Ok(<<TRUE>>)

\* C6: for every read-write struct option, against a kernel that stores the
\* bytes it is given: set passes v's bytes with length size_of(T), and a get
\* after a successful set(v) on the same descriptor returns v field for field.
C6_StructRoundTrip ==
    /\ (IsSet /\ Setter(call.opt.ty) = "SetStruct") =>
         /\ Sys.data = call.arg
         /\ Sys.len = SizeOf(call.opt.ty)
    /\ (IsGet /\ Getter(call.opt.ty) = "GetStruct" /\ call.opt.cap = "Both"
          /\ call.status = 0 /\ Holds(call.fd, call.opt)) =>
         call.outcome = Ok(<<applied[1].arg>>)

C6_Witness ==
    /\ IsGet
    /\ call.opt.name = "Linger"
    /\ Holds(call.fd, call.opt)
    /\ applied[1].arg = <<1, 5>>
    /\ call.outcome = Ok(<< <<1, 5>> >>)

C8_OneDefinitionPerTarget ==
    resolved.name # "" =>
      /\ Cardinality(resolved.defs) <= 1
      /\ (\E e \in Registry : e.name = resolved.name /\ e.cfg = "always")
           => Cardinality(resolved.defs) = 1
      /\ resolved.name \in {"Ipv6AddMembership", "Ipv6DropMembership"} =>
           /\ Cardinality(resolved.defs) = 1
           /\ \A d \in resolved.defs :
                /\ d.level = "IPPROTO_IPV6"
                /\ d.ty = "ipv6_mreq"
                /\ d.cap = "SetOnly"
                /\ d.flag =
                     IF target.os \in {"dragonfly", "freebsd", "ios", "macos",
                                       "netbsd", "openbsd"}
                     THEN IF resolved.name = "Ipv6AddMembership"
                          THEN "IPV6_JOIN_GROUP" ELSE "IPV6_LEAVE_GROUP"
                     ELSE IF resolved.name = "Ipv6AddMembership"
                          THEN "IPV6_ADD_MEMBERSHIP" ELSE "IPV6_DROP_MEMBERSHIP"

C8_Witness ==
    /\ resolved.name = "Ipv6AddMembership"
    /\ target.os = "netbsd"
    /\ \E d \in resolved.defs : d.flag = "IPV6_JOIN_GROUP"

\* the kernel's reply to getsockopt(SO_ACCEPTCONN) tells the truth about the
\* descriptor: a full native int, non-zero exactly when it is listening
Truthful(c, L) ==
    /\ c.getter[1].len = SizeOfCInt
    /\ (c.getter[1].val # 0) <=> (c.fd \in L)

SameCall == call'.op = call.op /\ call'.opt = call.opt /\ call' = call

\* C9: get(AcceptConn, d) reports d's listening state at the time of the call
\* (false before listen, true after it), whenever the kernel's reply is
\* successful and truthful, and the get never changes the listening state.
C9_ReportsListening ==
    [][ (call'.op = "get" /\ call'.opt.name = "AcceptConn" /\ ~SameCall) =>
          /\ listening' = listening
          /\ (call'.status = 0 /\ Truthful(call', listening)) =>
               call'.outcome = Ok(<<call'.fd \in listening>>) ]_vars

C9_Witness ==
    /\ IsGet
    /\ call.opt.name = "AcceptConn"
    /\ call.fd \in listening
    /\ Left.val = -1
    /\ call.outcome = Ok(<<TRUE>>)

\* C10: the byte encoding is asymmetric: get of a byte-typed option presets
\* the length slot to one byte and accepts the result only if the returned
\* length is still one byte, while set copies the value into a one-byte field
\* and reports the size of a native int as the length.
C10_ByteAsymmetry ==
    /\ (IsGet /\ call.opt.ty = "u8") =>
         /\ Preset = 1
         /\ Sys.buf = 1
         /\ call.outcome.kind = "Ok" => Left.len = 1
    /\ (IsSet /\ call.opt.ty = "u8") =>
         /\ Sys.buf = 1
         /\ Sys.data = call.arg
         /\ Sys.len = SizeOfCInt
         /\ Sys.len # Sys.buf

C10_Witness ==
    /\ IsSet
    /\ call.opt.name = "IpMulticastTtl"
    /\ call.arg = <<255>>
    /\ Sys.len = 4
    /\ Sys.buf = 1
    /\ Sys.oob # << >>

====
